---- MODULE Spec2Model ----
(***************************************************************************)
(* A model of engine.py: train_one_epoch run by data-parallel workers,     *)
(* evaluate with its attention visualisation, and the fractional-epoch     *)
(* log coordinate.                                                         *)
(***************************************************************************)
EXTENDS Integers, Sequences, FiniteSets, TLC

\* ------------------------------------------------------------------------
\* Bounds and input sets
\* ------------------------------------------------------------------------

\* The worker processes of one data-parallel run.
Workers == {1, 2}

\* len(data_loader) of train_one_epoch, the same on every worker.
NumBatches == 2

\* Finite loss values a batch can yield; a non-finite loss is a separate case.
Losses == {1, 3}

\* The sizes the last batch of the training batch source can have. Every batch
\* but the last one is full; the last one holds what is left.
TailSizes == {1, 2}

FullSize == CHOOSE n \in TailSizes : \A m \in TailSizes : m <= n

TrainSizes(s) == IF s + 1 < NumBatches THEN {FullSize} ELSE TailSizes

\* Values optimizer.param_groups[0]["lr"] can take.
LRs == {1, 2}

\* The learning rate the optimizer is constructed with.
BaseLr == CHOOSE v \in LRs : \A u \in LRs : v <= u

\* The epoch argument of train_one_epoch.
Epochs == {1}

\* The longest evaluation batch source.
MaxEvalBatches == 3

\* Sizes of the evaluation batches.
EvalSizes == {99, 100, 150}

\* Line 137: the smallest batch that is visualized.
VisMin == 100

\* Line 158: the number of samples of a batch that are visualized.
VisCells == 100

\* The largest len(data_loader) and the last epoch of the log-coordinate runs.
MaxLen == 4
MaxEpoch == 2

\* ------------------------------------------------------------------------
\* State
\* ------------------------------------------------------------------------

VARIABLES
    \* train_one_epoch, one copy per worker
    pc,          \* position of each worker in train_one_epoch
    step,        \* data_iter_step
    batch,       \* the batch being processed: loss_value, its finiteness, its size
    calls,       \* the collaborator calls made for the current batch, in order
    optLr,       \* optimizer.param_groups[0]["lr"]
    lr,          \* the local variable lr
    meters,      \* metric_logger.meters: 'loss' and 'lr', each [count, total, value]
    reduced,     \* loss_value_reduce, as the fraction [num, den]
    sink,        \* log_writer: the scalars written, per tag, with the number of writes
    params,      \* version of the live model's parameters
    shadow,      \* version of the parameters the EMA shadow model was last updated from
    nEma,        \* number of model_ema.update calls
    nColl,       \* number of collectives the worker has entered
    yielded,     \* what the batch source has yielded: batches, samples, sum of loss * size
    ret,         \* the mapping returned: per meter the fraction [num, den]
    model_ema,   \* whether an EMA model is configured (model_ema is not None)
    log_writer,  \* per worker, whether a log sink is configured
    epoch,       \* the epoch argument
    \* evaluate
    epc,         \* position in evaluate
    ori_dataset, \* whether an original dataset is supplied (ori_dataset is not None)
    hasKernel,   \* whether the model has a parameter 'downsample_layers.0.0.weight'
    dirExists,   \* whether the directory out/visual exists
    sizes,       \* the batch sizes the evaluation batch source yields, in order
    k,           \* index of the current batch, from 0
    batch_num,   \* the local variable batch_num
    cache,       \* local_cache.cache: per name, the list of captured arrays, each
                 \*   tagged with the batch whose forward pass captured it
    read,        \* per name, the tag of the array the visualization branch read
    batch_size,  \* the local variable batch_size of the visualization branch
    fetched,     \* the indices the visualization branch fetched from ori_dataset
    saved,       \* the savefig calls: the file, the batch, whether the directory existed
    evalMeters,  \* metric_logger of evaluate: count of the loss meter and of acc1
    \* the log coordinate over successive epochs
    cpc,         \* position of the epoch loop
    cN,          \* len(data_loader)
    cEpoch,      \* epoch
    cStep,       \* data_iter_step
    cPrev,       \* the coordinates logged in the previous epoch, by step
    cLast        \* the coordinates logged so far in this epoch, by step

trainVars == <<pc, step, batch, calls, optLr, lr, meters, reduced, sink, params,
               shadow, nEma, nColl, yielded, ret, model_ema, log_writer, epoch>>
evalVars == <<epc, ori_dataset, hasKernel, dirExists, sizes, k, batch_num, cache,
              read, batch_size, fetched, saved, evalMeters>>
coordVars == <<cpc, cN, cEpoch, cStep, cPrev, cLast>>
vars == <<trainVars, evalVars, coordVars>>

\* ------------------------------------------------------------------------
\* Collaborators of the training loop
\* ------------------------------------------------------------------------

\* utils.SmoothedValue: a fresh meter, and update(value, n).
NewMeter == [count |-> 0, total |-> 0, value |-> 0]

MeterUpdate(m, v, n) ==
    [count |-> m.count + n, total |-> m.total + v * n, value |-> v]

\* MetricLogger.update(**kwargs): every meter is updated with n = 1.
LoggerUpdate(ms, name, v) == [ms EXCEPT ![name] = MeterUpdate(ms[name], v, 1)]

RECURSIVE SumOver(_, _)
SumOver(f, S) ==
    IF S = {} THEN 0
    ELSE LET x == CHOOSE y \in S : TRUE IN f[x] + SumOver(f, S \ {x})

\* The fractional-epoch log coordinate int((data_iter_step / n + epoch) * 1000).
\* The quotient and the product are IEEE doubles: where the exact value is an
\* integer the computed one may fall just below it, and int() then gives one less.
RoundErr(s, n, e) == IF s > 0 /\ (s * 1000) % n = 0 THEN {0, 1} ELSE {0}

\* The coordinate with the epoch left out of the scaling by 1000.
Epoch1000xEpochUnscaled(s, n, e, err) == ((s * 1000) \div n) + e - err

Epoch1000x(s, n, e, err) == ((s * 1000) \div n) + e * 1000 - err

NoBatch == [finite |-> TRUE, loss |-> 0, n |-> 0]
NoSink == [writes |-> 0, loss |-> <<0, 1>>, lr |-> 0, x |-> 0]
NoYield == [batches |-> 0, samples |-> 0, weighted |-> 0, plain |-> 0]
NoRet == [loss |-> <<0, 0>>, lr |-> <<0, 0>>]

\* ------------------------------------------------------------------------
\* train_one_epoch
\* ------------------------------------------------------------------------

TrainInit ==
    /\ pc = [w \in Workers |-> "pull"]
    /\ step = [w \in Workers |-> 0]
    /\ batch = [w \in Workers |-> NoBatch]
    /\ calls = [w \in Workers |-> <<>>]
    /\ optLr = [w \in Workers |-> BaseLr]
    /\ lr = [w \in Workers |-> 0]
    /\ meters = [w \in Workers |-> [loss |-> NewMeter, lr |-> NewMeter]]
    /\ reduced = [w \in Workers |-> <<0, 1>>]
    /\ sink = [w \in Workers |-> NoSink]
    /\ params = [w \in Workers |-> 0]
    /\ shadow = [w \in Workers |-> 0]
    /\ nEma = [w \in Workers |-> 0]
    /\ nColl = [w \in Workers |-> 0]
    /\ yielded = [w \in Workers |-> NoYield]
    /\ ret = [w \in Workers |-> NoRet]
    /\ model_ema \in BOOLEAN
    /\ log_writer \in [Workers -> BOOLEAN]
    /\ epoch \in Epochs

TrainIdle ==
    /\ pc = [w \in Workers |-> "off"]
    /\ step = [w \in Workers |-> 0]
    /\ batch = [w \in Workers |-> NoBatch]
    /\ calls = [w \in Workers |-> <<>>]
    /\ optLr = [w \in Workers |-> 0]
    /\ lr = [w \in Workers |-> 0]
    /\ meters = [w \in Workers |-> [loss |-> NewMeter, lr |-> NewMeter]]
    /\ reduced = [w \in Workers |-> <<0, 1>>]
    /\ sink = [w \in Workers |-> NoSink]
    /\ params = [w \in Workers |-> 0]
    /\ shadow = [w \in Workers |-> 0]
    /\ nEma = [w \in Workers |-> 0]
    /\ nColl = [w \in Workers |-> 0]
    /\ yielded = [w \in Workers |-> NoYield]
    /\ ret = [w \in Workers |-> NoRet]
    /\ model_ema = FALSE
    /\ log_writer = [w \in Workers |-> FALSE]
    /\ epoch = 0

\* Lines 40-51: the batch source yields the next batch, the forward pass and the
\* criterion give the loss, loss.item() its scalar value.
Forward(w) ==
    /\ pc[w] = "pull"
    /\ step[w] < NumBatches
    /\ \E n \in TrainSizes(step[w]) :
       \E b \in [finite : {TRUE}, loss : Losses, n : {n}]
                \cup {[finite |-> FALSE, loss |-> 0, n |-> n]} :
          /\ batch' = [batch EXCEPT ![w] = b]
          /\ yielded' = [yielded EXCEPT ![w] =
                 [batches |-> @.batches + 1,
                  samples |-> @.samples + b.n,
                  weighted |-> @.weighted + b.loss * b.n,
                  plain |-> @.plain + b.loss]]
    /\ calls' = [calls EXCEPT ![w] = <<"forward">>]
    /\ pc' = [pc EXCEPT ![w] = "guard"]
    /\ UNCHANGED <<step, optLr, lr, meters, reduced, sink, params, shadow, nEma,
                   nColl, ret, model_ema, log_writer, epoch>>
    /\ UNCHANGED <<evalVars, coordVars>>

\* A guard that reports the non-finite loss and goes on.
StabilityGuardGoesOn(w) ==
    /\ pc[w] = "guard"
    /\ pc' = [pc EXCEPT ![w] = "zero_grad"]
    /\ UNCHANGED <<step, batch, calls, optLr, lr, meters, reduced, sink, params,
                   shadow, nEma, nColl, yielded, ret, model_ema, log_writer, epoch>>
    /\ UNCHANGED <<evalVars, coordVars>>

\* Lines 53-55: a non-finite loss ends the process, sys.exit(1).
StabilityGuard(w) ==
    /\ pc[w] = "guard"
    /\ pc' = [pc EXCEPT ![w] = IF batch[w].finite THEN "zero_grad" ELSE "exited"]
    /\ UNCHANGED <<step, batch, calls, optLr, lr, meters, reduced, sink, params,
                   shadow, nEma, nColl, yielded, ret, model_ema, log_writer, epoch>>
    /\ UNCHANGED <<evalVars, coordVars>>

\* Line 57: optimizer.zero_grad().
ZeroGrad(w) ==
    /\ pc[w] = "zero_grad"
    /\ calls' = [calls EXCEPT ![w] = Append(@, "zero_grad")]
    /\ pc' = [pc EXCEPT ![w] = "loss_scaler"]
    /\ UNCHANGED <<step, batch, optLr, lr, meters, reduced, sink, params, shadow,
                   nEma, nColl, yielded, ret, model_ema, log_writer, epoch>>
    /\ UNCHANGED <<evalVars, coordVars>>

\* Lines 60-62: loss_scaler(loss, optimizer, ...): backward, clip, optimizer.step().
\* The parameters change; the optimizer may change the learning rate of its
\* parameter groups as part of the step.
OptimStep(w) ==
    /\ pc[w] = "loss_scaler"
    /\ calls' = [calls EXCEPT ![w] = Append(@, "loss_scaler")]
    /\ params' = [params EXCEPT ![w] = @ + 1]
    /\ \E v \in LRs : optLr' = [optLr EXCEPT ![w] = v]
    /\ pc' = [pc EXCEPT ![w] = "synchronize"]
    /\ UNCHANGED <<step, batch, lr, meters, reduced, sink, shadow, nEma, nColl,
                   yielded, ret, model_ema, log_writer, epoch>>
    /\ UNCHANGED <<evalVars, coordVars>>

\* Line 64: torch.cuda.synchronize().
Synchronize(w) ==
    /\ pc[w] = "synchronize"
    /\ calls' = [calls EXCEPT ![w] = Append(@, "synchronize")]
    /\ pc' = [pc EXCEPT ![w] = "ema"]
    /\ UNCHANGED <<step, batch, optLr, lr, meters, reduced, sink, params, shadow,
                   nEma, nColl, yielded, ret, model_ema, log_writer, epoch>>
    /\ UNCHANGED <<evalVars, coordVars>>

\* An EMA step that is skipped even though an EMA model is configured.
EmaUpdateSkipped(w) ==
    /\ pc[w] = "ema"
    /\ pc' = [pc EXCEPT ![w] = "metric"]
    /\ UNCHANGED <<step, batch, calls, optLr, lr, meters, reduced, sink, params,
                   shadow, nEma, nColl, yielded, ret, model_ema, log_writer, epoch>>
    /\ UNCHANGED <<evalVars, coordVars>>

\* Lines 65-66: model_ema.update(model) when an EMA model is configured.
EmaUpdate(w) ==
    /\ pc[w] = "ema"
    /\ IF model_ema
       THEN /\ calls' = [calls EXCEPT ![w] = Append(@, "ema_update")]
            /\ shadow' = [shadow EXCEPT ![w] = params[w]]
            /\ nEma' = [nEma EXCEPT ![w] = @ + 1]
       ELSE UNCHANGED <<calls, shadow, nEma>>
    /\ pc' = [pc EXCEPT ![w] = "metric"]
    /\ UNCHANGED <<step, batch, optLr, lr, meters, reduced, sink, params, nColl,
                   yielded, ret, model_ema, log_writer, epoch>>
    /\ UNCHANGED <<evalVars, coordVars>>

\* A metric update that records the learning rate read in the previous step.
RecordMetricsStale(w) ==
    /\ pc[w] = "metric"
    /\ meters' = [meters EXCEPT ![w] =
           LoggerUpdate(LoggerUpdate(@, "loss", batch[w].loss), "lr", lr[w])]
    /\ calls' = [calls EXCEPT ![w] = Append(@, "metric_update")]
    /\ pc' = [pc EXCEPT ![w] = "reduce"]
    /\ UNCHANGED <<step, batch, optLr, lr, reduced, sink, params, shadow, nEma,
                   nColl, yielded, ret, model_ema, log_writer, epoch>>
    /\ UNCHANGED <<evalVars, coordVars>>

\* Lines 68-71: the batch loss and the learning rate of the first parameter
\* group go into the metric aggregator.
RecordMetrics(w) ==
    /\ pc[w] = "metric"
    /\ lr' = [lr EXCEPT ![w] = optLr[w]]
    /\ meters' = [meters EXCEPT ![w] =
           LoggerUpdate(LoggerUpdate(@, "loss", batch[w].loss), "lr", optLr[w])]
    /\ calls' = [calls EXCEPT ![w] = Append(@, "metric_update")]
    /\ pc' = [pc EXCEPT ![w] = "reduce"]
    /\ UNCHANGED <<step, batch, optLr, reduced, sink, params, shadow, nEma, nColl,
                   yielded, ret, model_ema, log_writer, epoch>>
    /\ UNCHANGED <<evalVars, coordVars>>

\* Line 73, entry: the worker enters utils.all_reduce_mean and blocks in it.
EnterAllReduce(w) ==
    /\ pc[w] = "reduce"
    /\ calls' = [calls EXCEPT ![w] = Append(@, "all_reduce_mean")]
    /\ nColl' = [nColl EXCEPT ![w] = @ + 1]
    /\ pc' = [pc EXCEPT ![w] = "in_all_reduce"]
    /\ UNCHANGED <<step, batch, optLr, lr, meters, reduced, sink, params, shadow,
                   nEma, yielded, ret, model_ema, log_writer, epoch>>
    /\ UNCHANGED <<evalVars, coordVars>>

\* Line 73, completion: the collective completes once every worker has entered
\* it, and every worker receives the mean of the contributed losses.
AllReduceMean ==
    /\ \A w \in Workers : pc[w] = "in_all_reduce"
    /\ reduced' = [w \in Workers |->
           <<SumOver([v \in Workers |-> batch[v].loss], Workers), Cardinality(Workers)>>]
    /\ pc' = [w \in Workers |-> "log"]
    /\ UNCHANGED <<step, batch, calls, optLr, lr, meters, sink, params, shadow,
                   nEma, nColl, yielded, ret, model_ema, log_writer, epoch>>
    /\ UNCHANGED <<evalVars, coordVars>>

\* Lines 74-80: with a log sink, the reduced loss and the learning rate are
\* written at the coordinate epoch_1000x; then the loop goes to the next batch.
LogStep(w) ==
    /\ pc[w] = "log"
    /\ IF log_writer[w]
       THEN \E err \in RoundErr(step[w], NumBatches, epoch) :
              sink' = [sink EXCEPT ![w] =
                  [writes |-> @.writes + 1, loss |-> reduced[w], lr |-> lr[w],
                   x |-> Epoch1000x(step[w], NumBatches, epoch, err)]]
       ELSE UNCHANGED sink
    /\ step' = [step EXCEPT ![w] = @ + 1]
    /\ pc' = [pc EXCEPT ![w] = "pull"]
    /\ UNCHANGED <<batch, calls, optLr, lr, meters, reduced, params, shadow, nEma,
                   nColl, yielded, ret, model_ema, log_writer, epoch>>
    /\ UNCHANGED <<evalVars, coordVars>>

\* Line 83, entry: the batch source is exhausted and the worker enters
\* metric_logger.synchronize_between_processes().
EnterSynchronize(w) ==
    /\ pc[w] = "pull"
    /\ step[w] = NumBatches
    /\ nColl' = [nColl EXCEPT ![w] = @ + 1]
    /\ calls' = [calls EXCEPT ![w] = <<>>]
    /\ pc' = [pc EXCEPT ![w] = "in_synchronize"]
    /\ UNCHANGED <<step, batch, optLr, lr, meters, reduced, sink, params, shadow,
                   nEma, yielded, ret, model_ema, log_writer, epoch>>
    /\ UNCHANGED <<evalVars, coordVars>>

\* Line 83, completion: every meter's count and total become the sums over all
\* workers.
SynchronizeBetweenProcesses ==
    /\ \A w \in Workers : pc[w] = "in_synchronize"
    /\ meters' = [w \in Workers |-> [name \in {"loss", "lr"} |->
           [count |-> SumOver([v \in Workers |-> meters[v][name].count], Workers),
            total |-> SumOver([v \in Workers |-> meters[v][name].total], Workers),
            value |-> meters[w][name].value]]]
    /\ pc' = [w \in Workers |-> "return"]
    /\ UNCHANGED <<step, batch, calls, optLr, lr, reduced, sink, params, shadow,
                   nEma, nColl, yielded, ret, model_ema, log_writer, epoch>>
    /\ UNCHANGED <<evalVars, coordVars>>

\* A return of every meter's last value in place of its global_avg.
ReturnLastValue(w) ==
    /\ pc[w] = "return"
    /\ ret' = [ret EXCEPT ![w] =
           [name \in {"loss", "lr"} |-> <<meters[w][name].value, 1>>]]
    /\ pc' = [pc EXCEPT ![w] = "done"]
    /\ UNCHANGED <<step, batch, calls, optLr, lr, meters, reduced, sink, params,
                   shadow, nEma, nColl, yielded, model_ema, log_writer, epoch>>
    /\ UNCHANGED <<evalVars, coordVars>>

\* Lines 84-85: the mapping of every meter to its global_avg, total / count.
Return(w) ==
    /\ pc[w] = "return"
    /\ ret' = [ret EXCEPT ![w] =
           [name \in {"loss", "lr"} |-> <<meters[w][name].total, meters[w][name].count>>]]
    /\ pc' = [pc EXCEPT ![w] = "done"]
    /\ UNCHANGED <<step, batch, calls, optLr, lr, meters, reduced, sink, params,
                   shadow, nEma, nColl, yielded, model_ema, log_writer, epoch>>
    /\ UNCHANGED <<evalVars, coordVars>>

\* ------------------------------------------------------------------------
\* evaluate
\* ------------------------------------------------------------------------

\* The names the visualization branch reads from the cache, lines 140-143.
CacheNames == {"Block.local_images.images", "Block.local_r_weight.r_weight",
               "Block.local_r_idx.r_idx", "Block.local_attn_weight.attn_weight"}

EmptyCache == [name \in CacheNames |-> <<>>]

\* What an earlier pass of the process left in the process-wide cache.
StaleCache == [name \in CacheNames |-> <<-1>>]

NoRead == [name \in CacheNames |-> -1]

RECURSIVE SumSeq(_, _)
SumSeq(q, n) == IF n = 0 THEN 0 ELSE q[n] + SumSeq(q, n - 1)

\* The size of the batch a captured array was captured from: its leading
\* dimension.
ShapeOf(tag) == IF tag \in 0..(Len(sizes) - 1) THEN sizes[tag + 1] ELSE 0

EvalInit ==
    /\ epc = "kernel"
    /\ ori_dataset \in BOOLEAN
    /\ hasKernel \in BOOLEAN
    /\ dirExists \in BOOLEAN
    /\ \E n \in 1..MaxEvalBatches : sizes \in [1..n -> EvalSizes]
    /\ k = 0
    /\ batch_num = 0
    /\ cache \in {EmptyCache, StaleCache}
    /\ read = NoRead
    /\ batch_size = 0
    /\ fetched = {}
    /\ saved = <<>>
    /\ evalMeters = [loss |-> 0, acc1 |-> 0]

EvalIdle ==
    /\ epc = "off" /\ ori_dataset = FALSE /\ hasKernel = FALSE /\ dirExists = FALSE
    /\ sizes = <<>> /\ k = 0 /\ batch_num = 0 /\ cache = EmptyCache /\ read = NoRead
    /\ batch_size = 0 /\ fetched = {} /\ saved = <<>>
    /\ evalMeters = [loss |-> 0, acc1 |-> 0]

\* plt.savefig(file): the write succeeds in an existing directory and raises
\* FileNotFoundError in a missing one.
Savefig(file, next) ==
    /\ saved' = Append(saved, [file |-> file, batch |-> k, dir |-> dirExists])
    /\ epc' = IF dirExists THEN next ELSE "raised"

\* Lines 104-117: with an original dataset, the kernels of the first
\* downsample layer are drawn and saved.
KernelFigure ==
    /\ epc = "kernel"
    /\ IF ori_dataset /\ hasKernel
       THEN Savefig(<<"convolutional kernels in downsample 0">>, "loop")
       ELSE epc' = "loop" /\ UNCHANGED saved
    /\ UNCHANGED <<ori_dataset, hasKernel, dirExists, sizes, k, batch_num, cache,
                   read, batch_size, fetched, evalMeters>>
    /\ UNCHANGED <<trainVars, coordVars>>

\* A loop head that leaves the cache as it is.
ClearCacheSkipped ==
    /\ epc = "loop"
    /\ k < Len(sizes)
    /\ epc' = "forward"
    /\ UNCHANGED <<ori_dataset, hasKernel, dirExists, sizes, k, batch_num, cache,
                   read, batch_size, fetched, saved, evalMeters>>
    /\ UNCHANGED <<trainVars, coordVars>>

\* Line 133: local_cache.clear().
ClearCache ==
    /\ epc = "loop"
    /\ k < Len(sizes)
    /\ cache' = EmptyCache
    /\ epc' = "forward"
    /\ UNCHANGED <<ori_dataset, hasKernel, dirExists, sizes, k, batch_num, read,
                   batch_size, fetched, saved, evalMeters>>
    /\ UNCHANGED <<trainVars, coordVars>>

\* Line 135: the forward pass appends, under every name, the array it captures.
ForwardEval ==
    /\ epc = "forward"
    /\ cache' = [name \in CacheNames |-> Append(cache[name], k)]
    /\ epc' = "branch"
    /\ UNCHANGED <<ori_dataset, hasKernel, dirExists, sizes, k, batch_num, read,
                   batch_size, fetched, saved, evalMeters>>
    /\ UNCHANGED <<trainVars, coordVars>>

\* A branch condition that leaves out the batch of exactly VisMin samples.
VisualizedAbove(n) == ori_dataset /\ n > VisMin

\* Lines 136-137: the visualization branch is taken for a batch of at least
\* VisMin samples when an original dataset is supplied.
Visualized(n) == ori_dataset /\ n >= VisMin

\* Lines 136-146: the branch reads the first array under every name, and takes
\* batch_size from the leading dimension of the local images.
ReadCache ==
    /\ epc = "branch"
    /\ IF Visualized(sizes[k + 1])
       THEN /\ read' = [name \in CacheNames |-> cache[name][1]]
            /\ batch_size' = ShapeOf(cache["Block.local_images.images"][1])
            /\ epc' = "fetch"
       ELSE /\ epc' = "metrics"
            /\ UNCHANGED <<read, batch_size>>
    /\ UNCHANGED <<ori_dataset, hasKernel, dirExists, sizes, k, batch_num, cache,
                   fetched, saved, evalMeters>>
    /\ UNCHANGED <<trainVars, coordVars>>

\* Lines 158-160: ori_dataset[batch_size * batch_num + i] for i in range(100);
\* an index past the end of the dataset raises IndexError.
FetchOriginals ==
    /\ epc = "fetch"
    /\ LET idx == {batch_size * batch_num + i : i \in 0..(VisCells - 1)}
       IN /\ fetched' = idx
          /\ epc' = IF \A j \in idx : j < SumSeq(sizes, Len(sizes))
                    THEN "save" ELSE "raised"
    /\ UNCHANGED <<ori_dataset, hasKernel, dirExists, sizes, k, batch_num, cache,
                   read, batch_size, saved, evalMeters>>
    /\ UNCHANGED <<trainVars, coordVars>>

\* Lines 177-183: the directory is created if absent, and the figure saved.
SaveFigure ==
    /\ epc = "save"
    /\ dirExists' = TRUE
    /\ saved' = Append(saved, [file |-> <<"figure and attn", batch_num>>,
                               batch |-> k, dir |-> TRUE])
    /\ epc' = "count"
    /\ UNCHANGED <<ori_dataset, hasKernel, sizes, k, batch_num, cache, read,
                   batch_size, fetched, evalMeters>>
    /\ UNCHANGED <<trainVars, coordVars>>

\* Line 185: batch_num = batch_num + 1.
CountBatch ==
    /\ epc = "count"
    /\ batch_num' = batch_num + 1
    /\ epc' = "metrics"
    /\ UNCHANGED <<ori_dataset, hasKernel, dirExists, sizes, k, cache, read,
                   batch_size, fetched, saved, evalMeters>>
    /\ UNCHANGED <<trainVars, coordVars>>

\* Lines 187-194: the loss and the accuracies go into the metric aggregator,
\* the loss with n = 1 and the accuracies with n = batch_size.
EvalMetrics ==
    /\ epc = "metrics"
    /\ evalMeters' = [loss |-> evalMeters.loss + 1,
                      acc1 |-> evalMeters.acc1 + sizes[k + 1]]
    /\ k' = k + 1
    /\ epc' = "loop"
    /\ UNCHANGED <<ori_dataset, hasKernel, dirExists, sizes, batch_num, cache,
                   read, batch_size, fetched, saved>>
    /\ UNCHANGED <<trainVars, coordVars>>

\* Lines 195-200: the batch source is exhausted and evaluate returns.
EvalReturn ==
    /\ epc = "loop"
    /\ k = Len(sizes)
    /\ epc' = "done"
    /\ UNCHANGED <<ori_dataset, hasKernel, dirExists, sizes, k, batch_num, cache,
                   read, batch_size, fetched, saved, evalMeters>>
    /\ UNCHANGED <<trainVars, coordVars>>

EvalNext ==
    \/ KernelFigure
    \/ ClearCache
    \/ ForwardEval
    \/ ReadCache
    \/ FetchOriginals
    \/ SaveFigure
    \/ CountBatch
    \/ EvalMetrics
    \/ EvalReturn

\* ------------------------------------------------------------------------
\* The log coordinate over the epochs of a run
\* ------------------------------------------------------------------------

CoordInit ==
    /\ cpc = "log"
    /\ cN \in 1..MaxLen
    /\ cEpoch = 0
    /\ cStep = 0
    /\ cPrev = <<>>
    /\ cLast = <<>>

CoordIdle ==
    /\ cpc = "off" /\ cN = 1 /\ cEpoch = 0 /\ cStep = 0
    /\ cPrev = <<>> /\ cLast = <<>>

\* Lines 78-80: the coordinate of the current step is computed and logged.
CoordLog ==
    /\ cpc = "log"
    /\ cStep < cN
    /\ \E err \in RoundErr(cStep, cN, cEpoch) :
          cLast' = Append(cLast, Epoch1000x(cStep, cN, cEpoch, err))
    /\ cStep' = cStep + 1
    /\ UNCHANGED <<cpc, cN, cEpoch, cPrev>>
    /\ UNCHANGED <<trainVars, evalVars>>

\* train_one_epoch is called again, with the next epoch.
CoordNextEpoch ==
    /\ cpc = "log"
    /\ cStep = cN
    /\ cEpoch < MaxEpoch
    /\ cEpoch' = cEpoch + 1
    /\ cStep' = 0
    /\ cPrev' = cLast
    /\ cLast' = <<>>
    /\ UNCHANGED <<cpc, cN>>
    /\ UNCHANGED <<trainVars, evalVars>>

CoordNext == CoordLog \/ CoordNextEpoch

Init == TrainInit /\ EvalIdle /\ CoordIdle

Next ==
    \/ \E w \in Workers :
          \/ Forward(w)
          \/ StabilityGuard(w)
          \/ ZeroGrad(w)
          \/ OptimStep(w)
          \/ Synchronize(w)
          \/ EmaUpdate(w)
          \/ RecordMetrics(w)
          \/ EnterAllReduce(w)
          \/ LogStep(w)
          \/ EnterSynchronize(w)
          \/ Return(w)
    \/ AllReduceMean
    \/ SynchronizeBetweenProcesses

Spec == Init /\ [][Next]_vars

InitEval == TrainIdle /\ EvalInit /\ CoordIdle

EvalSpec == InitEval /\ [][EvalNext]_vars

InitCoord == TrainIdle /\ EvalIdle /\ CoordInit

CoordSpec == InitCoord /\ [][CoordNext]_vars

\* ------------------------------------------------------------------------
\* Claims about train_one_epoch
\* ------------------------------------------------------------------------

IsPrefix(s, t) == Len(s) <= Len(t) /\ \A i \in 1..Len(s) : s[i] = t[i]

\* The collaborator calls of one batch that passes the stability guard.
BatchCalls ==
    <<"forward", "zero_grad", "loss_scaler", "synchronize">>
    \o (IF model_ema THEN <<"ema_update">> ELSE <<>>)
    \o <<"metric_update", "all_reduce_mean">>

\* C1: a worker whose current batch has a non-finite loss is at the guard or
\* has exited: for that batch nothing but the forward pass was called, and the
\* optimizer steps, EMA updates, metric updates, reductions and log writes made
\* are those of the step[w] batches before it; no later batch was pulled.
C1_NonFiniteLossTerminates ==
    \A w \in Workers :
        ~batch[w].finite =>
            /\ pc[w] \in {"guard", "exited"}
            /\ calls[w] = <<"forward">>
            /\ yielded[w].batches = step[w] + 1
            /\ params[w] = step[w]
            /\ nEma[w] = (IF model_ema THEN step[w] ELSE 0)
            /\ meters[w].loss.count = step[w]
            /\ meters[w].lr.count = step[w]
            /\ nColl[w] = step[w]
            /\ sink[w].writes = (IF log_writer[w] THEN step[w] ELSE 0)

\* A worker has exited at its second batch, after a first batch it processed.
C1_Witness == \E w \in Workers : pc[w] = "exited" /\ step[w] = 1 /\ params[w] = 1

\* C2: no worker is blocked in a collective that another worker, having
\* exited, will never join.
C2_NoWorkerLeftBlocked ==
    \A w \in Workers :
        pc[w] \in {"in_all_reduce", "in_synchronize"} =>
            \A v \in Workers : pc[v] # "exited"

\* C3: the calls of a batch are made in the order zero_grad, loss_scaler,
\* synchronize, ema_update; the EMA shadow model has been updated once per
\* completed optimizer step, from the parameters that step left, when an EMA
\* model is configured, and never when none is.
C3_StepOrderAndEma ==
    \A w \in Workers :
        /\ IsPrefix(calls[w], BatchCalls)
        /\ ~model_ema => nEma[w] = 0 /\ shadow[w] = 0
        /\ model_ema =>
              IF pc[w] \in {"synchronize", "ema"}
              THEN nEma[w] = params[w] - 1 /\ shadow[w] = params[w] - 1
              ELSE nEma[w] = params[w] /\ shadow[w] = params[w]

\* A worker has updated the EMA shadow model in its second batch.
C3_Witness ==
    \E w \in Workers :
        /\ model_ema /\ nEma[w] = 2 /\ pc[w] = "metric"
        /\ calls[w] = <<"forward", "zero_grad", "loss_scaler", "synchronize", "ema_update">>

\* The sums, over all workers, of what the batch sources yielded.
AllSamples == SumOver([v \in Workers |-> yielded[v].samples], Workers)
AllWeighted == SumOver([v \in Workers |-> yielded[v].weighted], Workers)
AllBatches == SumOver([v \in Workers |-> yielded[v].batches], Workers)
AllPlain == SumOver([v \in Workers |-> yielded[v].plain], Workers)

\* C4, as stated: the 'loss' returned is the batch-size-weighted mean of the
\* per-batch losses of all workers, sum(loss * size) / sum(size).
C4_BatchSizeWeightedMean ==
    \A w \in Workers :
        pc[w] = "done" =>
            ret[w].loss[1] * AllSamples = AllWeighted * ret[w].loss[2]

\* C4, amended: the 'loss' returned is the plain mean of the per-batch losses
\* of all workers, sum(loss) / number of batches, which is the weighted mean
\* when every batch is full.
C4_PlainMean ==
    \A w \in Workers :
        pc[w] = "done" =>
            /\ ret[w].loss[2] = AllBatches
            /\ ret[w].loss[2] > 0
            /\ ret[w].loss[1] = AllPlain
            /\ AllSamples = FullSize * AllBatches =>
                  ret[w].loss[1] * AllSamples = AllWeighted * ret[w].loss[2]

\* Both workers have returned, after batches of different sizes and losses.
C4_Witness ==
    /\ \A w \in Workers : pc[w] = "done"
    /\ AllSamples # FullSize * AllBatches
    /\ \E w \in Workers : ret[w].loss[1] * AllSamples # AllWeighted * ret[w].loss[2]

\* C8: once the metrics of a step are recorded, the learning rate in the
\* aggregator is the one the optimizer holds after that step's optimizer step;
\* once the step is logged, the log sink holds the same value.
C8_LrOfTheSameStep ==
    \A w \in Workers :
        /\ pc[w] \in {"reduce", "in_all_reduce", "log"} =>
              /\ meters[w].lr.value = optLr[w]
              /\ lr[w] = optLr[w]
              /\ meters[w].lr.count = step[w] + 1
        /\ (log_writer[w] /\ pc[w] \in {"pull", "in_synchronize", "return", "done"}
                /\ step[w] > 0) =>
              /\ sink[w].writes = step[w]
              /\ sink[w].lr = meters[w].lr.value
              /\ sink[w].lr = optLr[w]

\* A worker has logged its second step, whose learning rate differs from the
\* first step's.
C8_Witness ==
    \E w \in Workers :
        /\ log_writer[w] /\ pc[w] = "pull" /\ step[w] = 2
        /\ sink[w].writes = 2
        /\ meters[w].lr.total # 2 * sink[w].lr

\* ------------------------------------------------------------------------
\* Claims about evaluate
\* ------------------------------------------------------------------------

IsAttn(i) == saved[i].file[1] = "figure and attn"

\* The attention figure files written, and the batches they were written for.
AttnFiles == {saved[i].file : i \in {j \in 1..Len(saved) : IsAttn(j)}}
AttnBatches == {saved[i].batch : i \in {j \in 1..Len(saved) : IsAttn(j)}}

\* C5: an attention figure has been written for a processed batch if and only
\* if an original dataset is supplied and the batch has at least 100 samples,
\* one figure per such batch; when evaluate returns, the number of attention
\* figure files is the number of such batches.
C5_FigureIffDatasetAndHundred ==
    /\ \A j \in 0..(k - 1) :
          (j \in AttnBatches) <=> (ori_dataset /\ sizes[j + 1] >= 100)
    /\ \A j \in AttnBatches : ori_dataset /\ sizes[j + 1] >= 100
    /\ \A i, j \in 1..Len(saved) :
          (IsAttn(i) /\ IsAttn(j) /\ saved[i].batch = saved[j].batch) => i = j
    /\ epc = "done" =>
          Cardinality(AttnFiles) =
              Cardinality({j \in 1..Len(sizes) : ori_dataset /\ sizes[j] >= 100})

\* evaluate has returned after a batch of 99 samples, which has no figure, and
\* batches of 100 and 150 samples, which have one each.
C5_Witness ==
    /\ epc = "done" /\ ori_dataset
    /\ sizes = <<100, 99, 150>>
    /\ AttnBatches = {0, 2}
    /\ Cardinality(AttnFiles) = 2

\* C6: from the forward pass of batch k to the end of its iteration, the cache
\* holds under every name exactly the array captured in batch k, and what the
\* visualization branch read was captured in batch k.
C6_CacheHoldsCurrentPassOnly ==
    /\ epc \in {"branch", "fetch", "save", "count", "metrics"} =>
          \A name \in CacheNames : cache[name] = <<k>>
    /\ epc \in {"fetch", "save", "count"} =>
          \A name \in CacheNames : read[name] = k

\* The visualization branch has read the cache in the second batch.
C6_Witness ==
    /\ epc = "fetch" /\ k = 1
    /\ \A name \in CacheNames : read[name] = 1

\* C9: the indices fetched for a visualized batch are the dataset positions of
\* its first 100 samples: the number of samples of the batches before it, plus
\* 0..99.
C9_IndexIsDatasetPosition ==
    epc \in {"save", "count"} =>
        fetched = {SumSeq(sizes, k) + i : i \in 0..99}

\* C10: every savefig call of evaluate is made when out/visual exists.
C10_SavefigIntoExistingDirectory ==
    \A i \in 1..Len(saved) : saved[i].dir

\* ------------------------------------------------------------------------
\* Claims about the log coordinate
\* ------------------------------------------------------------------------

\* C7: within an epoch the coordinates do not decrease from step to step; the
\* coordinate of a step is greater than that of the same step one epoch
\* earlier; every coordinate of an epoch is greater than every coordinate of
\* the epoch before it.
C7_CoordinateMonotone ==
    /\ \A i, j \in 1..Len(cLast) : i <= j => cLast[i] <= cLast[j]
    /\ \A i \in 1..Len(cLast) : i <= Len(cPrev) => cPrev[i] < cLast[i]
    /\ \A i \in 1..Len(cLast) : \A j \in 1..Len(cPrev) : cPrev[j] < cLast[i]

\* The second epoch of four batches has been logged.
C7_Witness ==
    /\ cEpoch = 1 /\ cN = 4
    /\ cPrev = <<0, 250, 500, 750>>
    /\ cLast = <<1000, 1250, 1500, 1750>>

====
